---- MODULE Spec2Model ----
(***************************************************************************)
(* Model of gpt-extract.py: the reply classifier / retry loop of           *)
(* scrape_via_prompt, upsert_result, and the resume / checkpoint loop of   *)
(* run, driven by the command line of __main__ and restarted by the        *)
(* supervisor loop of the module docstring.                                *)
(*                                                                         *)
(* Text is a sequence of fragments (one-character strings for document     *)
(* text, marker phrases and punctuation for backend replies); the string   *)
(* operations of the source (lower, in, strip, split, re.sub, slicing) are  *)
(* operators over such sequences.                                          *)
(***************************************************************************)
EXTENDS Integers, Sequences, FiniteSets, TLC

\* ------------------------------------------------------------------ bounds
NumDocs == 2        \* documents in the input file
MaxRuns == 2        \* process starts (first start + supervisor restarts)
MaxInitial == 1     \* entries of an output file found at the first start

\* ------------------------------------------------------- program constants
DOC_MAX_LENGTH == 3000
TailLength == 500
DegradedBackoff == 120
RateLimitSleep == 3600
PacingSleep == 60
MaxWaited == 5

\* Python's None where the other values are sequences of fragments.
None == <<"<None>">>

\* ------------------------------------------------------------ string model
Whitespace == {" ", "\t", "\n"}

DegradedMarker == "unusable response produced by chatgpt"
bad_input == "it is not possible to generate a json representation of the provided text"
RateLimitSentinel == "HTTP Error 429: Too many requests"
\* the triple-backtick fence (a backtick cannot be written in a TLA+ string)
Fence == "<fence>"
CloseBrace == "}"
OpenObject == "{\"a\": 1"

\* str.lower() on one fragment: the mixed-case spellings the backend uses.
LowerFragment(t) ==
    CASE t = "Unusable response produced by ChatGPT" -> DegradedMarker
      [] t = "It is not possible to generate a JSON representation of the provided text" -> bad_input
      [] t = RateLimitSentinel -> "http error 429: too many requests"
      [] t = "Prefix" -> "prefix"
      [] OTHER -> t

lower(s) == [i \in DOMAIN s |-> LowerFragment(s[i])]

\* `needle in s`
Contains(s, needle) == \E i \in DOMAIN s : s[i] = needle

\* str.strip(): the text from its first to its last non-blank character.
\* (Written with positions, not by recursion on the text, so that texts of
\* DOC_MAX_LENGTH characters can be evaluated.)
lstrip(s) ==
    IF \A i \in DOMAIN s : s[i] \in Whitespace
    THEN <<>>
    ELSE SubSeq(s, CHOOSE i \in DOMAIN s :
                       s[i] \notin Whitespace /\ \A j \in 1..(i - 1) : s[j] \in Whitespace,
                Len(s))

rstrip(s) ==
    IF \A i \in DOMAIN s : s[i] \in Whitespace
    THEN <<>>
    ELSE SubSeq(s, 1, CHOOSE i \in DOMAIN s :
                          s[i] \notin Whitespace /\ \A j \in (i + 1)..Len(s) : s[j] \in Whitespace)

strip(s) == rstrip(lstrip(s))

\* re.sub("[chars]+", repl, s): every maximal run of chars becomes one repl,
\* that is, a character of chars right after another one is dropped and the
\* first of each run is replaced.
re_sub(chars, repl, s) ==
    LET StartsPiece(i) == s[i] \notin chars \/ i = 1 \/ s[i - 1] \notin chars
        kept == SelectSeq([i \in DOMAIN s |-> i], StartsPiece)
    IN  [k \in DOMAIN kept |-> IF s[kept[k]] \in chars THEN repl ELSE s[kept[k]]] \o <<>>

\* s[:n] and s[-n:]
Front(s, n) == SubSeq(s, 1, IF n < Len(s) THEN n ELSE Len(s))
Back(s, n) == SubSeq(s, (IF n < Len(s) THEN Len(s) - n ELSE 0) + 1, Len(s))

\* cleaned = re.sub(r"[\t ]+", " ", re.sub(r"[\n]+", "\n", page_text)).strip()
Cleaned(page_text) == strip(re_sub({"\t", " "}, " ", re_sub({"\n"}, "\n", page_text)))

\* clean_document with the test the prose gives (len(cleaned) <= max).
clean_document_inclusive(page_text) ==
    LET cleaned == Cleaned(page_text)
    IN  IF Len(cleaned) <= DOC_MAX_LENGTH
        THEN cleaned
        ELSE Front(cleaned, DOC_MAX_LENGTH - TailLength) \o <<" ">> \o Back(cleaned, TailLength)

clean_document(page_text) ==
    LET cleaned == Cleaned(page_text)
    IN  IF Len(cleaned) < DOC_MAX_LENGTH
        THEN cleaned
        ELSE Front(cleaned, DOC_MAX_LENGTH - TailLength) \o <<" ">> \o Back(cleaned, TailLength)

Schema == "<schema>"

BuildPrompt(page_text) ==
    <<Fence>> \o clean_document(page_text)
        \o <<Fence, "For the given text, can you provide a JSON representation", Fence, Schema, Fence>>

\* Index of the first fence at or after position i (0 when there is none).
FirstFence(s, i) ==
    IF \E j \in i..Len(s) : s[j] = Fence
    THEN CHOOSE j \in i..Len(s) : s[j] = Fence /\ \A k \in i..(j - 1) : s[k] # Fence
    ELSE 0

\* The parse taking any fenced piece for JSON.
ParseDataAnyPiece(response) ==
    IF response = None THEN "None"
    ELSE IF FirstFence(response, 1) = 0 THEN "None" ELSE "<dict a=1>"

\* json.loads(response.split("```")[1]) with every exception caught:
\* None when response is None, has no fence, or the piece is not JSON.
ParseData(response) ==
    IF response = None THEN "None"
    ELSE LET a == FirstFence(response, 1)
         IN  IF a = 0 THEN "None"
             ELSE LET b == FirstFence(response, a + 1)
                      piece == SubSeq(response, a + 1, IF b = 0 THEN Len(response) ELSE b - 1)
                  IN  IF strip(piece) = <<OpenObject, CloseBrace>> THEN "<dict a=1>" ELSE "None"

\* --------------------------------------------------------- backend replies
GoodReply == <<"Prefix", Fence, OpenObject, CloseBrace, Fence, "suffix">>
NoFenceReply == <<OpenObject, CloseBrace>>
BadJsonReply == <<Fence, "suffix", CloseBrace, Fence>>
DegradedReply == <<"Unusable response produced by ChatGPT">>
RefusalReply == <<"It is not possible to generate a JSON representation of the provided text">>
RefusalBraceReply == <<bad_input, OpenObject, CloseBrace>>
RateLimitReply == <<" ", RateLimitSentinel, "\n">>
IncompleteReply == <<Fence, OpenObject>>

ReplyPool ==
    { GoodReply, NoFenceReply, BadJsonReply, DegradedReply, RefusalReply,
      RefusalBraceReply, RateLimitReply, IncompleteReply }

\* ------------------------------------------------------------------- state
VARIABLES
    documents,      \* parse_input_documents: sequence of [id, text]
    args,           \* parser.parse_args: [continue_at, continue_last]
    outfile,        \* the output file: [exists, complete, entries]
    pc,             \* position of the process
    err,            \* the uncaught exception that ended the process
    results,        \* run: results
    continue_at,    \* run: continue_at, [kind, val]
    continue_last,  \* run: continue_last
    first_scrape,   \* run: first_scrape
    p_ix,           \* run: position in documents (1-based)
    waited,         \* scrape_via_prompt: waited
    current_prompt, \* scrape_via_prompt: current_prompt
    reply,          \* last text chat.ask returned for the current document
    log,            \* what this process did: reloads, sleeps, requests
    runs            \* process starts so far

vars == <<documents, args, outfile, pc, err, results, continue_at, continue_last,
          first_scrape, p_ix, waited, current_prompt, reply, log, runs>>

Texts == { <<>>, <<" ", "a", "\t", " ", "b", "\n", "\n">> }

NoCursor == [kind |-> "none", val |-> 0]
IntCursor(n) == [kind |-> "int", val |-> n]
StrCursor(n) == [kind |-> "str", val |-> n]

\* --continue-at is declared without type=, so argparse hands over a string:
\* val is the number its digits spell, and -1 stands for the empty string
\* (--continue-at "").
EmptyStr == StrCursor(-1)
CliContinueAt == {NoCursor, EmptyStr, StrCursor(1)}

\* The truth value Python gives args.continue_at: None and "" are false.
Truthy(ca) == ca.kind = "str" /\ ca # EmptyStr

Event(e, n) == [ev |-> e, arg |-> n]

MakeResult(pk, page_text, prompt, response, data) ==
    [id |-> pk, text |-> page_text, prompt |-> prompt, response |-> response, data |-> data]

\* An entry left in the output file by an earlier use of the program.
OldResult(pk) == MakeResult(pk, <<"o">>, BuildPrompt(<<"o">>), NoFenceReply, "None")

Ids(rs) == {rs[i].id : i \in DOMAIN rs}
UniqueIds(rs) == \A i, j \in DOMAIN rs : rs[i].id = rs[j].id => i = j

Max(S) == CHOOSE m \in S : \A n \in S : n <= m

File(entries) == [exists |-> TRUE, complete |-> TRUE, entries |-> entries]
NoFile == [exists |-> FALSE, complete |-> FALSE, entries |-> <<>>]
TornFile(entries) == [exists |-> TRUE, complete |-> FALSE, entries |-> entries]

InitialStores ==
    UNION { { [i \in 1..n |-> OldResult(f[i])] : f \in { g \in [1..n -> 0..(NumDocs - 1)] :
                \A i, j \in 1..n : g[i] = g[j] => i = j } } : n \in 0..MaxInitial }

Running == {"loop", "ask", "save"}
Stopped == {"idle", "done", "aborted", "killed"}

Init ==
    /\ documents \in { d \in [1..NumDocs -> [id : 0..(NumDocs - 1), text : Texts]] :
                         \A i \in 1..NumDocs : d[i].id = i - 1 }
    /\ args = [continue_at |-> NoCursor, continue_last |-> FALSE]
    /\ outfile \in {NoFile} \cup {File(s) : s \in InitialStores}
    /\ pc = "idle"
    /\ err = "none"
    /\ results = <<>>
    /\ continue_at = NoCursor
    /\ continue_last = FALSE
    /\ first_scrape = TRUE
    /\ p_ix = 1
    /\ waited = 0
    /\ current_prompt = None
    /\ reply = None
    /\ log = <<>>
    /\ runs = 0

\* ------------------------------------------------------- scrape_via_prompt
Outcome(kind, secs, e, response) == [kind |-> kind, sleep |-> secs, err |-> e, response |-> response]

ErrTypeError == "TypeError: '<' not supported between 'int' and 'str'"
ErrValueError == "ValueError: max() arg is an empty sequence"
ErrExceeded == "BadStateException: Exceeded 5 wait states, starting over."
ErrHourOver == "BadStateException: Hour is over, restart!"
ErrNotFullJson == "BadStateException: Not returning full JSON."
ErrTimeout == "TimeoutException"

\* "unusable response produced by chatgpt" in response.lower()
IsDegraded(response) == Contains(lower(response), DegradedMarker)

\* bad_input in response.lower()
IsRefusal(response) == Contains(lower(response), bad_input)

\* response.strip() == "HTTP Error 429: Too many requests"
IsRateLimited(response) == strip(response) = <<RateLimitSentinel>>

\* "}" not in response
LacksBrace(response) == ~Contains(response, CloseBrace)

\* Classify with the retry limit off by one (w > 6 instead of w > 5).
ClassifyLimitSix(response, w) ==
    IF w > MaxWaited + 1
    THEN Outcome("raise", 0, ErrExceeded, None)
    ELSE IF IsDegraded(response)
    THEN Outcome("retry", DegradedBackoff * w, "none", None)
    ELSE IF IsRefusal(response)
    THEN Outcome("return", 0, "none", None)
    ELSE IF IsRateLimited(response)
    THEN Outcome("raise", RateLimitSleep, ErrHourOver, None)
    ELSE IF LacksBrace(response)
    THEN Outcome("raise", 0, ErrNotFullJson, None)
    ELSE Outcome("return", 0, "none", response)

\* Classify without the closing-brace test.
ClassifyNoBraceTest(response, w) ==
    IF w > MaxWaited
    THEN Outcome("raise", 0, ErrExceeded, None)
    ELSE IF IsDegraded(response)
    THEN Outcome("retry", DegradedBackoff * w, "none", None)
    ELSE IF IsRefusal(response)
    THEN Outcome("return", 0, "none", None)
    ELSE IF IsRateLimited(response)
    THEN Outcome("raise", RateLimitSleep, ErrHourOver, None)
    ELSE Outcome("return", 0, "none", response)

\* Classify with a backoff that does not grow (120 seconds every time).
ClassifyFlatBackoff(response, w) ==
    IF w > MaxWaited
    THEN Outcome("raise", 0, ErrExceeded, None)
    ELSE IF IsDegraded(response)
    THEN Outcome("retry", DegradedBackoff, "none", None)
    ELSE IF IsRefusal(response)
    THEN Outcome("return", 0, "none", None)
    ELSE IF IsRateLimited(response)
    THEN Outcome("raise", RateLimitSleep, ErrHourOver, None)
    ELSE IF LacksBrace(response)
    THEN Outcome("raise", 0, ErrNotFullJson, None)
    ELSE Outcome("return", 0, "none", response)

\* The body of the while loop after chat.ask returned response and waited
\* was incremented to w: retry (sleep, then ask again), raise, or return.
Classify(response, w) ==
    IF w > MaxWaited
    THEN Outcome("raise", 0, ErrExceeded, None)
    ELSE IF IsDegraded(response)
    THEN Outcome("retry", DegradedBackoff * w, "none", None)
    ELSE IF IsRefusal(response)
    THEN Outcome("return", 0, "none", None)
    ELSE IF IsRateLimited(response)
    THEN Outcome("raise", RateLimitSleep, ErrHourOver, None)
    ELSE IF LacksBrace(response)
    THEN Outcome("raise", 0, ErrNotFullJson, None)
    ELSE Outcome("return", 0, "none", response)

\* ------------------------------------------------------------ upsert_result
\* upsert_result without the search for an entry with the same id.
upsert_append(rs, result) == Append(rs, result)

upsert_result(rs, result) ==
    IF \E i \in DOMAIN rs : rs[i].id = result.id
    THEN LET r_ix == CHOOSE i \in DOMAIN rs :
                        rs[i].id = result.id /\ \A j \in 1..(i - 1) : rs[j].id # result.id
         IN  [rs EXCEPT ![r_ix] = result]
    ELSE Append(rs, result)

\* ---------------------------------------------------------------------- run
\* The resume cursor without the + 1.
ResumeCursorAtMax(already_scraped) == Max(already_scraped)

\* continue_at = max(list(already_scraped)) + 1
ResumeCursor(already_scraped) == Max(already_scraped) + 1

\* The cursor test dropped: no document is before the cursor.
BeforeCursorNever(pk, cursor) == FALSE

\* pk < continue_at for an integer pk and an integer cursor
BeforeCursor(pk, cursor) == pk < cursor

\* if not first_scrape: time.sleep(60); first_scrape = False
Pacing(first) ==
    IF ~first
    THEN [slept |-> <<Event("sleep", PacingSleep)>>, first_scrape |-> FALSE]
    ELSE [slept |-> <<>>, first_scrape |-> first]

\* The process dies of the uncaught exception e; lg is its log so far.
Die(e, lg) ==
    /\ pc' = "aborted"
    /\ err' = e
    /\ log' = lg

\* The handler without its raise: log, reload the page, go on with the
\* next document (lines 217-221).
ExceptHandlerSkip(e, lg) ==
    /\ pc' = "loop"
    /\ err' = err
    /\ log' = Append(lg, Event("reload", 0))
    /\ p_ix' = p_ix + 1

\* except (BadStateException, TimeoutException) as e: raise e
ExceptHandler(e, lg) ==
    /\ Die(e, lg)
    /\ UNCHANGED p_ix

\* run with a cursor of 0 when nothing is stored (max(..., default=-1) + 1).
RunStartEmptyOk(ca, cl) ==
    LET lg == <<Event("reload", 0)>>
        loaded == IF outfile.exists THEN outfile.entries ELSE <<>>
        already_scraped == Ids(loaded)
    IN  IF outfile.exists /\ ~outfile.complete
        THEN /\ Die("JSONDecodeError", lg)
             /\ results' = <<>>
             /\ continue_at' = ca
        ELSE /\ pc' = "loop"
             /\ err' = "none"
             /\ log' = lg
             /\ results' = loaded
             /\ continue_at' = IF cl
                               THEN IntCursor(IF already_scraped = {} THEN 0
                                              ELSE ResumeCursor(already_scraped))
                               ELSE ca

\* run, from its first line to the head of the for loop.
RunStart(ca, cl) ==
    LET lg == <<Event("reload", 0)>>
        loaded == IF outfile.exists THEN outfile.entries ELSE <<>>
        already_scraped == Ids(loaded)
    IN  IF outfile.exists /\ ~outfile.complete
        THEN /\ Die("JSONDecodeError", lg)
             /\ results' = <<>>
             /\ continue_at' = ca
        ELSE IF cl /\ already_scraped = {}
        THEN /\ Die(ErrValueError, lg)
             /\ results' = loaded
             /\ continue_at' = ca
        ELSE /\ pc' = "loop"
             /\ err' = "none"
             /\ log' = lg
             /\ results' = loaded
             /\ continue_at' = IF cl THEN IntCursor(ResumeCursor(already_scraped)) ELSE ca

\* __main__: the assert on the two resume options, then run.
Main(ca, cl) ==
    /\ pc \in Stopped
    /\ runs < MaxRuns
    /\ runs' = runs + 1
    /\ continue_last' = cl
    /\ first_scrape' = TRUE
    /\ p_ix' = 1
    /\ waited' = 0
    /\ current_prompt' = None
    /\ reply' = None
    /\ args' = [continue_at |-> ca, continue_last |-> cl]
    /\ IF cl /\ Truthy(ca)
       THEN /\ Die("AssertionError", <<>>)
            /\ results' = <<>>
            /\ continue_at' = ca
       ELSE RunStart(ca, cl)
    /\ UNCHANGED <<documents, outfile>>

\* One pass of the for loop up to the first chat.ask of scrape_via_prompt
\* (or the end of the loop, a skip, or the TypeError of int < str).
NextDocument ==
    /\ pc = "loop"
    /\ IF p_ix > Len(documents)
       THEN /\ pc' = "done"
            /\ UNCHANGED <<err, log, p_ix, first_scrape, waited, current_prompt>>
       ELSE LET pk == documents[p_ix].id
                page_text == documents[p_ix].text
            IN  IF page_text = <<>>
                THEN /\ p_ix' = p_ix + 1
                     /\ UNCHANGED <<pc, err, log, first_scrape, waited, current_prompt>>
                ELSE IF continue_at.kind = "str"
                THEN /\ Die(ErrTypeError, log)
                     /\ UNCHANGED <<p_ix, first_scrape, waited, current_prompt>>
                ELSE IF continue_at.kind = "int" /\ BeforeCursor(pk, continue_at.val)
                THEN /\ p_ix' = p_ix + 1
                     /\ UNCHANGED <<pc, err, log, first_scrape, waited, current_prompt>>
                ELSE LET pace == Pacing(first_scrape)
                     IN  /\ first_scrape' = pace.first_scrape
                         /\ log' = log \o pace.slept \o <<Event("ask", pk)>>
                         /\ waited' = 0
                         /\ current_prompt' = BuildPrompt(page_text)
                         /\ pc' = "ask"
                         /\ UNCHANGED <<err, p_ix>>
    /\ reply' = None
    /\ UNCHANGED <<documents, args, outfile, results, continue_at, continue_last, runs>>

\* chat.ask returns r: the rest of the while loop, and, when it returns, the
\* parse and the upsert of run.
Ask(r) ==
    /\ pc = "ask"
    /\ LET w == waited + 1
           c == Classify(r, w)
           pk == documents[p_ix].id
           page_text == documents[p_ix].text
       IN  /\ waited' = w
           /\ reply' = r
           /\ CASE c.kind = "retry" ->
                     /\ log' = log \o <<Event("sleep", c.sleep), Event("ask", pk)>>
                     /\ UNCHANGED <<pc, err, p_ix, results>>
                [] c.kind = "raise" ->
                     /\ ExceptHandler(c.err, IF c.sleep > 0
                                             THEN Append(log, Event("sleep", c.sleep))
                                             ELSE log)
                     /\ UNCHANGED results
                [] c.kind = "return" ->
                     /\ results' = upsert_result(results,
                            MakeResult(pk, page_text, BuildPrompt(page_text),
                                       c.response, ParseData(c.response)))
                     /\ pc' = "save"
                     /\ UNCHANGED <<err, log, p_ix>>
    /\ UNCHANGED <<documents, args, current_prompt, outfile, continue_at, continue_last, first_scrape, runs>>

\* chat.ask raises TimeoutException.
AskTimeout ==
    /\ pc = "ask"
    /\ ExceptHandler(ErrTimeout, log)
    /\ UNCHANGED <<documents, args, current_prompt, outfile, results, continue_at, continue_last,
                   first_scrape, waited, reply, runs>>

\* The loop going on without the write of the output file.
SaveNoWrite ==
    /\ pc = "save"
    /\ pc' = "loop"
    /\ p_ix' = p_ix + 1
    /\ UNCHANGED <<documents, args, current_prompt, outfile, err, results, continue_at, continue_last,
                   first_scrape, waited, reply, log, runs>>

\* with open(outfile, "w") as f: f.write(json.dumps(results)), run to the end.
Save ==
    /\ pc = "save"
    /\ outfile' = File(results)
    /\ pc' = "loop"
    /\ p_ix' = p_ix + 1
    /\ UNCHANGED <<documents, args, current_prompt, err, results, continue_at, continue_last,
                   first_scrape, waited, reply, log, runs>>

\* What a kill leaves of the file while the process is at open/write/close:
\* the old file (not opened yet), the new file (already closed), or the
\* truncated file with a proper prefix of the new text.
KilledFiles ==
    IF pc = "save"
    THEN {outfile, File(results)}
            \cup {TornFile(SubSeq(results, 1, k)) : k \in 0..(Len(results) - 1)}
    ELSE {outfile}

\* The process is killed from outside.
Kill ==
    /\ pc \in Running
    /\ pc' = "killed"
    /\ err' = "killed"
    /\ outfile' \in KilledFiles
    /\ UNCHANGED <<documents, args, current_prompt, results, continue_at, continue_last,
                   first_scrape, p_ix, waited, reply, log, runs>>

Next ==
    \/ \E ca \in CliContinueAt, cl \in BOOLEAN : Main(ca, cl)
    \/ NextDocument
    \/ \E r \in ReplyPool : Ask(r)
    \/ AskTimeout
    \/ Save
    \/ Kill

Spec == Init /\ [][Next]_vars

\* ------------------------------------------------------- supervised restarts
\* The use the docstring and the spec describe: a first start on no output
\* file and without resume options, then a restart with --continue-last
\* after every process that died.
InitFresh ==
    /\ Init
    /\ outfile = NoFile

Start ==
    /\ pc = "idle"
    /\ Main(NoCursor, FALSE)

Restart ==
    /\ pc \in {"aborted", "killed"}
    /\ Main(NoCursor, TRUE)

NextSupervised ==
    \/ Start
    \/ Restart
    \/ NextDocument
    \/ \E r \in ReplyPool : Ask(r)
    \/ AskTimeout
    \/ Save
    \/ Kill

SupervisedSpec == InitFresh /\ [][NextSupervised]_vars

\* ------------------------------------------------------- long documents
\* clean_document on texts around DOC_MAX_LENGTH characters: the input is
\* one document whose text cleans to n characters, and the step is the
\* first statement of scrape_via_prompt, which builds the prompt from it.
LongSpan == 30      \* cleaned lengths tried: DOC_MAX_LENGTH - 30 .. + 30
LongLengths == (DOC_MAX_LENGTH - LongSpan)..(DOC_MAX_LENGTH + LongSpan)

Letters == <<"a", "b", "c", "d", "e", "f", "g">>

\* n characters without blanks, varying with the position.
Body(n) == [i \in 1..n |-> Letters[(i % 7) + 1]]

\* Texts that clean to Body(n): as they are, and with blanks around them.
LongTexts ==
    {Body(n) : n \in LongLengths}
        \cup {<<" ", "\t">> \o Body(n) \o <<"\n", "\n">> : n \in LongLengths}

InitLong ==
    /\ documents \in {<<[id |-> 0, text |-> t]>> : t \in LongTexts}
    /\ args = [continue_at |-> NoCursor, continue_last |-> FALSE]
    /\ outfile = NoFile
    /\ pc = "loop"
    /\ err = "none"
    /\ results = <<>>
    /\ continue_at = NoCursor
    /\ continue_last = FALSE
    /\ first_scrape = TRUE
    /\ p_ix = 1
    /\ waited = 0
    /\ current_prompt = None
    /\ reply = None
    /\ log = <<Event("reload", 0)>>
    /\ runs = 1

\* prompt = f"...{clean_document(page_text)}..." (line 96), then chat.ask.
EnterPrompt ==
    /\ pc = "loop"
    /\ current_prompt' = BuildPrompt(documents[p_ix].text)
    /\ log' = Append(log, Event("ask", documents[p_ix].id))
    /\ pc' = "ask"
    /\ UNCHANGED <<documents, args, outfile, err, results, continue_at, continue_last,
                   first_scrape, p_ix, waited, reply, runs>>

NextLong == EnterPrompt

LongSpec == InitLong /\ [][NextLong]_vars

\* ================================================================== claims
\* Positions in the log of this process.
AskPositions == {i \in DOMAIN log : log[i].ev = "ask"}
AsksFor(pk) == {i \in AskPositions : log[i].arg = pk}
RequestedDocs == {log[i].arg : i \in AskPositions}
PacingPositions == {i \in DOMAIN log : log[i] = Event("sleep", PacingSleep)}
FirstAskOf(i) == i \in AskPositions /\ \A j \in AskPositions : j < i => log[j].arg # log[i].arg
LastEvent == log[Len(log)]
Persisted == IF outfile.exists THEN outfile.entries ELSE <<>>
HasCurrent == p_ix \in DOMAIN documents
CurrentId == documents[p_ix].id
StoredFor(pk) == CHOOSE r \in {results[i] : i \in DOMAIN results} : r.id = pk

\* C1: whatever step is taken (a kill in the middle of rewriting the output
\* file included), a readable output file stays readable and keeps an entry
\* for every id it held, so a restart loads every checkpointed result.
C1_KillKeepsCheckpoint ==
    [][ (outfile.exists /\ outfile.complete /\ outfile.entries # <<>>) =>
            /\ outfile'.exists
            /\ outfile'.complete
            /\ Ids(outfile.entries) \subseteq Ids(outfile'.entries) ]_vars

\* C2: a run that sent requests for n >= 1 documents slept the 60 second
\* pacing delay exactly n - 1 times, each right before the first request of
\* the 2nd..n-th document.
C2_PacingBeforeAllButFirst ==
    /\ Cardinality(PacingPositions) =
          (IF RequestedDocs = {} THEN 0 ELSE Cardinality(RequestedDocs) - 1)
    /\ \A i \in AskPositions :
          (FirstAskOf(i) /\ \E j \in AskPositions : j < i) => (i - 1) \in PacingPositions

\* C3: a reply without the degraded marker that follows k < 6 degraded
\* replies (waited counts the replies, so it is reply k + 1 <= 6) never
\* ends in the retry-exhaustion abort, and an acceptable one is accepted.
C3_UsableReplyAfterDegraded ==
    (reply # None /\ ~IsDegraded(reply) /\ waited <= MaxWaited + 1) =>
        /\ err # ErrExceeded
        /\ (~IsRefusal(reply) /\ ~IsRateLimited(reply) /\ ~LacksBrace(reply)) =>
              pc # "aborted"

\* C4: no document is requested more than 6 times in one run, and after
\* the 6th reply (five degraded replies before it) the retry loop has been
\* left with the retry-exhaustion abort, whatever the 6th reply is.
C4_SixthAttemptAborts ==
    /\ \A pk \in RequestedDocs : Cardinality(AsksFor(pk)) <= MaxWaited + 1
    /\ waited <= MaxWaited + 1
    /\ waited = MaxWaited + 1 => (pc = "aborted" /\ err = ErrExceeded)
    /\ pc = "ask" => Cardinality(AsksFor(CurrentId)) = waited + 1

\* C4 witness: six degraded replies in a row ended in the abort.
C4_Witness ==
    /\ pc = "aborted"
    /\ err = ErrExceeded
    /\ waited = MaxWaited + 1
    /\ IsDegraded(reply)
    /\ Cardinality(AsksFor(CurrentId)) = MaxWaited + 1

\* C5: a reply with the refusal marker is not fatal, and the result stored
\* for the document has no data and keeps the reply text in response.
C5_RefusalKeepsReply ==
    (reply # None /\ IsRefusal(reply) /\ ~IsDegraded(reply)) =>
        /\ pc # "aborted"
        /\ pc = "save" =>
              /\ CurrentId \in Ids(results)
              /\ StoredFor(CurrentId).data = "None"
              /\ StoredFor(CurrentId).response = reply

\* C6: a reply equal to the rate-limit sentinel, on any attempt, ends in a
\* fatal abort whose last act before raising was the one hour sleep.
C6_RateLimitSleepsFirst ==
    (reply # None /\ IsRateLimited(reply)) =>
        /\ pc = "aborted"
        /\ LastEvent = Event("sleep", RateLimitSleep)

\* C7 as stated: every reply without a closing brace, whatever else it
\* contains, ends in a fatal abort with no sleep and no resubmission.
C7_NoBraceAlwaysFatal ==
    (reply # None /\ LacksBrace(reply)) =>
        /\ pc = "aborted"
        /\ LastEvent.ev = "ask"
        /\ Cardinality(AsksFor(CurrentId)) = waited

\* C7 amended: a reply without a closing brace that carries neither the
\* degraded marker nor the refusal marker and is not the rate-limit sentinel
\* ends in a fatal abort right away: nothing is slept and nothing is
\* resubmitted after the request it answers.
C7_PlainNoBraceFatal ==
    (reply # None /\ LacksBrace(reply) /\ ~IsDegraded(reply) /\ ~IsRefusal(reply)
        /\ ~IsRateLimited(reply)) =>
        /\ pc = "aborted"
        /\ err \in {ErrNotFullJson, ErrExceeded}
        /\ LastEvent = Event("ask", CurrentId)
        /\ Cardinality(AsksFor(CurrentId)) = waited
        /\ results = Persisted

\* C7 witness: the first reply to a document had no closing brace and no
\* marker, and the process died of it.
C7_Witness ==
    /\ pc = "aborted"
    /\ err = ErrNotFullJson
    /\ reply = IncompleteReply
    /\ waited = 1

FatalAborts == {ErrExceeded, ErrHourOver, ErrNotFullJson, ErrTimeout}
ReloadPositions == {i \in DOMAIN log : log[i].ev = "reload"}

\* C8: a fatal abort while document d is classified ends the process: the
\* step leaves both stores as they are (equal to the last checkpoint), the
\* loop does not advance, nothing but a new process start follows, no
\* document after d was requested, and the page is reloaded only at start.
C8_FatalAbortPropagates ==
    [][ /\ pc = "ask" => pc' \in {"ask", "save", "aborted", "killed"}
        /\ (pc = "ask" /\ pc' = "aborted") =>
              /\ err' \in FatalAborts
              /\ results' = results
              /\ outfile' = outfile
              /\ p_ix' = p_ix
              /\ results' = Persisted'
              /\ \A i \in AskPositions' :
                    \E j \in 1..p_ix' : documents[j].id = log'[i].arg
        /\ pc = "aborted" => runs' = runs + 1
        /\ Cardinality(ReloadPositions') <= 1 ]_vars

\* C8 witness: a backend timeout on the first of two documents, with
\* earlier results in the store.
C8_Witness ==
    /\ pc = "aborted"
    /\ err = ErrTimeout
    /\ p_ix = 1
    /\ documents[2].text # <<>>
    /\ results # <<>>
    /\ results = Persisted

\* C9: ids in the store (in memory and in a readable file) are unique; an
\* upsert of an id already present puts the new result at that entry's
\* position and changes neither the length nor any other entry; an upsert
\* of a new id leaves all entries in place and adds the new one at the end.
C9_UpsertKeepsIdsUnique ==
    [][ /\ UniqueIds(results')
        /\ outfile'.complete => UniqueIds(outfile'.entries)
        /\ (pc = "ask" /\ pc' = "save") =>
              LET pk == documents[p_ix].id
                  n == Len(results)
              IN  IF pk \in Ids(results)
                  THEN /\ Len(results') = n
                       /\ \A i \in 1..n :
                             IF results[i].id = pk
                             THEN /\ results'[i].id = pk
                                  /\ results'[i].text = documents[p_ix].text
                                  /\ results'[i].response \in {reply', None}
                             ELSE results'[i] = results[i]
                  ELSE /\ Len(results') = n + 1
                       /\ \A i \in 1..n : results'[i] = results[i]
                       /\ results'[n + 1].id = pk
                       /\ results'[n + 1].text = documents[p_ix].text ]_vars

\* C9 witness: the first of two entries was replaced in place.
C9_Witness ==
    /\ pc = "save"
    /\ Len(results) = 2
    /\ results[1].id = CurrentId
    /\ results[1].text = documents[p_ix].text
    /\ results[2].id # CurrentId

\* C10: a run with continue_last and a loaded store that is not empty has
\* the cursor one above the largest stored id; it sends no request for an
\* id below the cursor, and passing such a document changes neither the
\* store, nor the file, nor the log.
C10_ResumeAfterMaxId ==
    [][ /\ (pc \in Stopped /\ pc' = "loop" /\ continue_last') =>
              /\ Persisted # <<>>
              /\ continue_at'.kind = "int"
              /\ (continue_at'.val - 1) \in Ids(Persisted)
              /\ \A k \in Ids(Persisted) : k < continue_at'.val
        /\ (continue_last' /\ pc' \in Running) =>
              \A i \in AskPositions' : log'[i].arg >= continue_at'.val
        /\ (pc = "loop" /\ continue_last /\ HasCurrent /\ pc' # "killed") =>
              (documents[p_ix].id < continue_at.val =>
                   /\ pc' = "loop"
                   /\ p_ix' = p_ix + 1
                   /\ UNCHANGED <<results, outfile, log>>) ]_vars

\* C10 witness: document 0 has text and no stored result, the store holds
\* a larger id, and the loop went past document 0 without a request.
C10_Witness ==
    /\ continue_last
    /\ pc = "loop"
    /\ p_ix = 2
    /\ documents[1].text # <<>>
    /\ documents[1].id \notin Ids(results)
    /\ continue_at = IntCursor(2)
    /\ AskPositions = {}

\* The first document with text that has no entry in the output file.
FirstUnstored(ix) ==
    /\ ix \in DOMAIN documents
    /\ documents[ix].text # <<>>
    /\ documents[ix].id \notin Ids(Persisted)
    /\ \A j \in 1..(ix - 1) :
          documents[j].text = <<>> \/ documents[j].id \in Ids(Persisted)

StartupErrors ==
    {"AssertionError", "JSONDecodeError", "ValueError: max() arg is an empty sequence"}

\* pk is not before the cursor this process uses.
NotBeforeCursor(pk) == continue_at.kind = "int" => pk >= continue_at.val

\* C12: a process that got past its start and was not killed ends either
\* in a fatal abort caused by a reply or a timeout, or normally; when it
\* ends normally the store holds a result for every document with text
\* whose id is not before the cursor, and the requests were sent in
\* document order.
C12_RunCompletes ==
    /\ (pc = "aborted" /\ err \notin StartupErrors) => err \in FatalAborts
    /\ pc = "done" =>
          \A j \in DOMAIN documents :
              (documents[j].text # <<>> /\ NotBeforeCursor(documents[j].id)) =>
                  documents[j].id \in Ids(results)
    /\ \A i, j \in AskPositions : i < j => log[i].arg <= log[j].arg

\* The text of the document with id pk.
TextOf(pk) == documents[CHOOSE j \in DOMAIN documents : documents[j].id = pk].text

\* C13: whenever a request is out (the process waits for chat.ask), the
\* output file is readable and equal to the store in memory, and it holds
\* the result, made in this run, of every document requested before the
\* current one.
C13_CheckpointBeforeNextRequest ==
    pc = "ask" =>
        /\ results = Persisted
        /\ outfile.exists => outfile.complete
        /\ \A pk \in RequestedDocs \ {CurrentId} :
              \E i \in DOMAIN Persisted :
                  /\ Persisted[i].id = pk
                  /\ Persisted[i].text = TextOf(pk)
                  /\ Persisted[i].prompt = BuildPrompt(TextOf(pk))

\* C13 witness: the request for the second document is out and the file
\* holds the first document's result of this run.
C13_Witness ==
    /\ pc = "ask"
    /\ p_ix = 2
    /\ RequestedDocs = {0, 1}
    /\ outfile.complete
    /\ outfile.entries # <<>>
    /\ results = outfile.entries

\* C14: an accepted reply without a fence, or whose fenced piece is not
\* JSON, is stored with no data and with the reply text as response; the
\* save that follows writes the whole store and the loop goes on to the
\* next document with no exception.
C14_ParseFailureRecoverable ==
    [][ /\ (pc = "ask" /\ pc' = "save" /\ reply' \in {NoFenceReply, BadJsonReply}) =>
              \E i \in DOMAIN results' :
                  /\ results'[i].id = documents[p_ix].id
                  /\ results'[i].data = "None"
                  /\ results'[i].response = reply'
        /\ (pc = "save" /\ pc' # "killed") =>
              /\ pc' = "loop"
              /\ err' = "none"
              /\ p_ix' = p_ix + 1
              /\ outfile' = File(results)
              /\ results' = results ]_vars

\* C14 witness: the reply to the first document had a fenced piece that is
\* not JSON; its result is in the file and the loop is at the second one.
C14_Witness ==
    /\ pc = "loop"
    /\ p_ix = 2
    /\ reply = BadJsonReply
    /\ outfile.complete
    /\ \E i \in DOMAIN outfile.entries :
          /\ outfile.entries[i].id = 0
          /\ outfile.entries[i].data = "None"
          /\ outfile.entries[i].response = BadJsonReply

\* C15: a process started with both --continue-at and --continue-last
\* stops at the assert: no backend session (no page reload), no request, and
\* the output file neither read nor written.
C15_BothOptionsRejected ==
    [][ (runs' # runs /\ args'.continue_last /\ args'.continue_at # NoCursor) =>
            /\ pc' = "aborted"
            /\ err' = "AssertionError"
            /\ log' = <<>>
            /\ results' = <<>>
            /\ outfile' = outfile ]_vars

\* Seconds of the sleeps that come right before a resubmission for pk.
RECURSIVE SumBackoff(_, _)
SumBackoff(pk, n) ==
    IF n < 2 THEN 0
    ELSE SumBackoff(pk, n - 1)
            + (IF log[n] = Event("ask", pk) /\ log[n - 1].ev = "sleep" /\ ~FirstAskOf(n)
               THEN log[n - 1].arg
               ELSE 0)

BackoffOf(pk) == SumBackoff(pk, Len(log))

\* C16: the k-th degraded reply in a row for a document (k = 1..5) is
\* followed by a sleep of exactly 120 * k seconds and a resubmission of the
\* same prompt, nothing else makes the loop ask again; the count starts at
\* zero with every document; the backoff slept for one document is at most
\* 1800 seconds.
C16_LinearBackoffPerDocument ==
    [][ /\ (pc = "ask" /\ waited' = waited + 1 /\ waited' <= 5 /\ IsDegraded(reply')) =>
              /\ pc' = "ask"
              /\ log' = log \o <<Event("sleep", 120 * waited'), Event("ask", documents[p_ix].id)>>
              /\ current_prompt' = current_prompt
              /\ current_prompt' = BuildPrompt(documents[p_ix].text)
              /\ p_ix' = p_ix
        /\ (pc = "ask" /\ pc' = "ask") => (waited' <= 5 /\ IsDegraded(reply'))
        /\ (pc = "loop" /\ pc' = "ask") => (waited' = 0 /\ BackoffOf(documents[p_ix'].id) = 0)
        /\ \A pk \in RequestedDocs' : BackoffOf(pk)' <= 1800 ]_vars

\* C16 witness: the first document was accepted after one degraded reply,
\* the second has had five and has slept 120 * (1 + 2 + 3 + 4 + 5) seconds.
C16_Witness ==
    /\ pc = "ask"
    /\ p_ix = 2
    /\ waited = 5
    /\ BackoffOf(1) = 1800
    /\ BackoffOf(0) = 120

\* The document text inside the prompt: what clean_document returned.
PromptText == SubSeq(current_prompt, 2, Len(current_prompt) - 5)
CleanedText == Cleaned(documents[1].text)
CleanedLength == Len(CleanedText)

\* out is the first head characters of text, one blank, and the last tail
\* characters of text.
IsExcerpt(out, text, head, tail) ==
    /\ Len(out) = head + 1 + tail
    /\ SubSeq(out, 1, head) = SubSeq(text, 1, head)
    /\ out[head + 1] = " "
    /\ SubSeq(out, head + 2, Len(out)) = SubSeq(text, Len(text) - tail + 1, Len(text))

C18_ContinueAtVerbatim ==
    (args.continue_at.kind = "str" /\ args.continue_at.val >= 0 /\ ~args.continue_last
        /\ runs > 0) =>
        /\ err # ErrTypeError
        /\ \A i \in AskPositions : log[i].arg >= args.continue_at.val
        /\ pc = "done" =>
              \A j \in DOMAIN documents :
                  (documents[j].text # <<>> /\ documents[j].id >= args.continue_at.val) =>
                      documents[j].id \in RequestedDocs

\* C19: a process started with --continue-last on no output file, or on
\* one that holds an empty array, dies of an error at once: no request is
\* sent and the file is left as it is (so the next start with
\* --continue-last finds the same and dies the same way).
C19_ContinueLastNeedsResults ==
    [][ (runs' # runs /\ args'.continue_last /\ outfile \in {NoFile, File(<<>>)}) =>
            /\ pc' = "aborted"
            /\ err' = (IF Truthy(args'.continue_at) THEN "AssertionError" ELSE ErrValueError)
            /\ AskPositions' = {}
            /\ outfile' = outfile ]_vars

\* C19 witness: the second start in a row that died in max() on an absent
\* output file.
C19_Witness ==
    /\ runs = 2
    /\ pc = "aborted"
    /\ err = ErrValueError
    /\ args.continue_last
    /\ outfile = NoFile
    /\ log = <<Event("reload", 0)>>

\* pk is not before the cursor the command line gave or continue_last made.
AtOrAfterCursor(pk) == continue_at.kind # "none" => pk >= continue_at.val

\* C20: a stored id alone never makes the loop pass a document: the loop,
\* when at a document with text whose id is not before the cursor (or with
\* no cursor at all), sends a request for it, stored or not; and a result
\* accepted for a stored id overwrites the stored entry where it is.
C20_StoredIdsDoNotSkip ==
    [][ /\ (pc = "loop" /\ HasCurrent /\ pc' # "killed") =>
              ((documents[p_ix].text # <<>> /\ AtOrAfterCursor(documents[p_ix].id)) =>
                   /\ pc' = "ask"
                   /\ LastEvent' = Event("ask", documents[p_ix].id))
        /\ (pc = "ask" /\ pc' = "save" /\ documents[p_ix].id \in Ids(results)) =>
              /\ Len(results') = Len(results)
              /\ \A i \in DOMAIN results : results'[i].id = results[i].id ]_vars

====
